---- MODULE Spec2Model ----
(***************************************************************************)
(* Model of the ecfg configuration registry (ConfigManager): the registry  *)
(* of loaded configurations, the files it reads and writes, and the        *)
(* operations get_config, reload_config, close_config_without_save, save.  *)
(***************************************************************************)
EXTENDS Integers, Sequences, FiniteSets, TLC

VARIABLES instances, files, nextId, last

vars == <<instances, files, nextId, last>>

\* ---------------------------------------------------------------- bounds
\* number of configuration instances the process may construct
MaxInst == 3

\* ---------------------------------------------------------------- names
\* A raw name is a sequence of characters.
RawNames == { <<"x">>, <<" ", "X", " ">>, <<"y">> }

IsSpace(c) == c = " "

\* str.lower() on one character
LowerChar(c) == CASE c = "X" -> "x" [] c = "Y" -> "y" [] OTHER -> c

Lower(s) == [i \in 1..Len(s) |-> LowerChar(s[i])]

RECURSIVE LStrip(_)
LStrip(s) == IF s # <<>> /\ IsSpace(Head(s)) THEN LStrip(Tail(s)) ELSE s

RECURSIVE RStrip(_)
RStrip(s) == IF s # <<>> /\ IsSpace(s[Len(s)]) THEN RStrip(SubSeq(s, 1, Len(s) - 1)) ELSE s

\* str.strip()
Strip(s) == RStrip(LStrip(s))

\* Variant: the name is trimmed but its case is kept
get_effective_config_name_keep_case(config_name) == Strip(config_name)

\* config_name.lower().strip()
get_effective_config_name(config_name) == Strip(Lower(config_name))

\* ---------------------------------------------------------------- paths
\* A path is a sequence of components; a component is a sequence of tokens.
NoPath == <<>>                       \* config_path None or ""
HomeDir == << <<"~">> >>             \* path.expanduser('~')
P1 == << <<"P1">> >>                 \* an explicit configuration directory
P2 == << <<"P2">> >>                 \* a second one, holding a directory x.ecfg
ConfigPaths == {NoPath, P1, P2}

\* f'{config_name}.ecfg'
FileName(config_name) == config_name \o <<".ecfg">>

\* path.join(a, b, ...) with relative components
Join(p, comps) == p \o comps

get_full_config_path(config_name, config_path) ==
    IF config_path = NoPath
    THEN Join(HomeDir, << <<".empire">>, FileName(config_name) >>)
    ELSE Join(config_path, << FileName(config_name) >>)

Parent(p) == SubSeq(p, 1, Len(p) - 1)

\* The directories of the machine: a home directory without ~/.empire, P1,
\* and P2 with a subdirectory that has the name of x's file.
dirs == {HomeDir, P1, P2, Join(P2, << FileName(<<"x">>) >>)}

\* path.isfile(p)
isfile(fs, p) == p \in DOMAIN fs

\* open(p, 'w'/'wb') succeeds when the parent is a directory and p is not one
CanOpenForWrite(p) == p # <<>> /\ Parent(p) \in dirs /\ p \notin dirs

\* ---------------------------------------------------------------- codec
\* A map is a set of <<key, value>> pairs with distinct keys.
EmptyMap == {}
Values == {0, 1}
Maps == {EmptyMap} \cup { {<<"k", v>>} : v \in Values }

\* A value orjson.dumps raises TypeError on (an arbitrary object)
BadValue == 2

Keys(m) == { p[1] : p \in m }
SetKey(m, k, v) == { p \in m : p[1] # k } \cup { <<k, v>> }

\* orjson.dumps raises on a map holding a value that is not a JSON value
Encodable(m) == \A p \in m : p[2] \in Values

\* orjson.dumps: a map to JSON bytes
dumps(m) == <<"json", m>>
\* base64.b85encode: bytes to base85 text
b85encode(b) == <<"b85", b>>

\* A decoding step either yields a value or raises.
Ok(v) == [ok |-> TRUE, val |-> v]
Raised == [ok |-> FALSE, val |-> {}]

\* Variant: text that is not base85 is passed on as it is
b85decode_lenient(b) == IF b[1] = "b85" THEN Ok(b[2]) ELSE Ok(b)

\* base64.b85decode(...).decode(): raises on text that is not base85 of UTF-8
b85decode(b) == IF b[1] = "b85" THEN Ok(b[2]) ELSE Raised
\* orjson.loads: JSON text to a map, raises on anything else
loads(b) == IF b[1] = "json" THEN Ok(b[2]) ELSE Raised

Corrupt == <<"junk">>

\* The content of a file that open(path, 'w') has truncated
Truncated == <<"empty">>

\* ---------------------------------------------------------------- types
\* DictConfig, a dataclass with the field k: int = 0, and a dataclass with the
\* field k: int that has no default
Types == {"DictConfig", "DataclassConfig", "RequiredConfig"}

\* config_type() raises TypeError when a field has no default
Constructible(type_) == type_ # "RequiredConfig"

\* config_type(): DictConfig() is the empty dict, the dataclass has k = 0
Construct(type_) == IF type_ = "DictConfig" THEN EmptyMap ELSE {<<"k", 0>>}

\* to_json
to_json(type_, data) == data

\* from_json: DictConfig wraps the map, a dataclass is built by cls(**data)
from_json(type_, data) ==
    IF type_ = "DictConfig" THEN Ok(data)
    ELSE IF type_ = "DataclassConfig"
    THEN IF Keys(data) \subseteq {"k"}
         THEN Ok(IF "k" \in Keys(data) THEN data ELSE Construct(type_))
         ELSE Raised
    ELSE IF Keys(data) = {"k"} THEN Ok(data) ELSE Raised

\* Variant: the content is parsed as JSON whatever the encoding mode
Decode_without_b85(config_type, is_encoded, content) ==
    LET json == loads(content)
    IN IF json.ok THEN from_json(config_type, json.val) ELSE Raised

\* config_type().from_json(loads(b85decode(f.read()).decode())) or
\* config_type().from_json(loads(f.read()))
Decode(config_type, is_encoded, content) ==
    LET text == IF is_encoded THEN b85decode(content) ELSE Ok(content)
        json == IF text.ok THEN loads(text.val) ELSE Raised
    IN IF json.ok THEN from_json(config_type, json.val) ELSE Raised

\* ---------------------------------------------------------------- registry
\* _instances is an insertion-ordered dict: a sequence of [key, rec] entries.
KeysOf(inst) == { inst[i].key : i \in 1..Len(inst) }
Has(inst, k) == k \in KeysOf(inst)
IndexOf(inst, k) == CHOOSE i \in 1..Len(inst) : inst[i].key = k
Get(inst, k) == inst[IndexOf(inst, k)].rec

\* _instances[k] = rec
Put(inst, k, rec) ==
    IF Has(inst, k)
    THEN [inst EXCEPT ![IndexOf(inst, k)] = [key |-> k, rec |-> rec]]
    ELSE Append(inst, [key |-> k, rec |-> rec])

\* Variant: the whole dict is emptied
Del_all(inst, k) == <<>>

\* del _instances[k]
Del(inst, k) == SelectSeq(inst, LAMBDA e : e.key # k)

\* _Configuration(config, is_encoded, type_, path, serializable)
Configuration(config, is_encoded, type_, path, serializable) ==
    [config |-> config, is_encoded |-> is_encoded, type_ |-> type_,
     path |-> path, serializable |-> serializable]

NoInst == [id |-> 0, data |-> EmptyMap]
NewInst(id, data) == [id |-> id, data |-> data]

\* Variant: the file is opened without asking whether it exists
load_config_no_isfile(inst, fs, id, config_name, config_type, config_path, is_encoded, serializable) ==
    IF ~serializable
    THEN LET c == NewInst(id, Construct(config_type))
         IN [inst |-> Put(inst, config_name,
                          Configuration(c, TRUE, config_type, config_path, FALSE)),
             ret |-> c, err |-> "none", reads |-> {}]
    ELSE LET full == get_full_config_path(config_name, config_path)
         IN IF isfile(fs, full)
            THEN LET data == Decode(config_type, is_encoded, fs[full])
                     c == NewInst(id, data.val)
                 IN IF ~data.ok
                    THEN [inst |-> inst, ret |-> NoInst, err |-> "codec", reads |-> {full}]
                    ELSE [inst |-> Put(inst, config_name,
                                       Configuration(c, is_encoded, config_type, full, TRUE)),
                          ret |-> c, err |-> "none", reads |-> {full}]
            ELSE [inst |-> inst, ret |-> NoInst, err |-> "io", reads |-> {}]

\* Variant: the file is read whether or not the configuration is serializable
load_config_reads_always(inst, fs, id, config_name, config_type, config_path, is_encoded, serializable) ==
    LET full == get_full_config_path(config_name, config_path)
        stored == IF serializable THEN full ELSE config_path
        enc == IF serializable THEN is_encoded ELSE TRUE
    IN IF isfile(fs, full)
       THEN LET data == Decode(config_type, is_encoded, fs[full])
                c == NewInst(id, data.val)
            IN IF ~data.ok
               THEN [inst |-> inst, ret |-> NoInst, err |-> "codec", reads |-> {full}]
               ELSE [inst |-> Put(inst, config_name,
                                  Configuration(c, enc, config_type, stored, serializable)),
                     ret |-> c, err |-> "none", reads |-> {full}]
       ELSE LET c == NewInst(id, Construct(config_type))
            IN [inst |-> Put(inst, config_name,
                             Configuration(c, enc, config_type, stored, serializable)),
                ret |-> c, err |-> "none", reads |-> {}]

\* Variant: a file that cannot be decoded is treated like a missing one
load_config_default_on_corrupt(inst, fs, id, config_name, config_type, config_path, is_encoded, serializable) ==
    IF ~serializable
    THEN LET c == NewInst(id, Construct(config_type))
         IN [inst |-> Put(inst, config_name,
                          Configuration(c, TRUE, config_type, config_path, FALSE)),
             ret |-> c, err |-> "none", reads |-> {}]
    ELSE LET full == get_full_config_path(config_name, config_path)
             data == IF isfile(fs, full) THEN Decode(config_type, is_encoded, fs[full])
                     ELSE Raised
             c == NewInst(id, IF data.ok THEN data.val ELSE Construct(config_type))
         IN [inst |-> Put(inst, config_name,
                          Configuration(c, is_encoded, config_type, full, TRUE)),
             ret |-> c, err |-> "none",
             reads |-> IF isfile(fs, full) THEN {full} ELSE {}]

\* Result of _load_config: the registry after it, the returned instance,
\* the error raised (if any) and the files it read.
load_config(inst, fs, id, config_name, config_type, config_path, is_encoded, serializable) ==
    IF ~serializable
    THEN LET c == NewInst(id, Construct(config_type))
         IN IF ~Constructible(config_type)
            THEN [inst |-> inst, ret |-> NoInst, err |-> "construct", reads |-> {}]
            ELSE [inst |-> Put(inst, config_name,
                               Configuration(c, TRUE, config_type, config_path, FALSE)),
                  ret |-> c, err |-> "none", reads |-> {}]
    ELSE LET full == get_full_config_path(config_name, config_path)
         IN IF ~Constructible(config_type)
            THEN [inst |-> inst, ret |-> NoInst, err |-> "construct", reads |-> {}]
            ELSE IF isfile(fs, full)
            THEN LET data == Decode(config_type, is_encoded, fs[full])
                     c == NewInst(id, data.val)
                 IN IF ~data.ok
                    THEN [inst |-> inst, ret |-> NoInst, err |-> "codec", reads |-> {full}]
                    ELSE [inst |-> Put(inst, config_name,
                                       Configuration(c, is_encoded, config_type, full, TRUE)),
                          ret |-> c, err |-> "none", reads |-> {full}]
            ELSE LET c == NewInst(id, Construct(config_type))
                 IN [inst |-> Put(inst, config_name,
                                  Configuration(c, is_encoded, config_type, full, TRUE)),
                     ret |-> c, err |-> "none", reads |-> {}]

\* Variant: the record's encoding mode is ignored and plain JSON is written
save_config_plain(fs, config) ==
    IF ~config.serializable
    THEN [fs |-> fs, err |-> "none", writes |-> {}]
    ELSE IF ~CanOpenForWrite(config.path)
    THEN [fs |-> fs, err |-> "io", writes |-> {}]
    ELSE LET out == dumps(to_json(config.type_, config.config.data))
         IN [fs |-> [p \in DOMAIN fs \cup {config.path} |->
                        IF p = config.path THEN out ELSE fs[p]],
             err |-> "none", writes |-> {config.path}]

\* Result of _save_config on one record: the files after it and the error.
save_config(fs, config) ==
    IF ~config.serializable
    THEN [fs |-> fs, err |-> "none", writes |-> {}]
    ELSE IF ~CanOpenForWrite(config.path)
    THEN [fs |-> fs, err |-> "io", writes |-> {}]
    ELSE IF ~Encodable(to_json(config.type_, config.config.data))
    THEN [fs |-> [p \in DOMAIN fs \cup {config.path} |->
                     IF p = config.path THEN Truncated ELSE fs[p]],
          err |-> "encode", writes |-> {config.path}]
    ELSE LET bytes == dumps(to_json(config.type_, config.config.data))
             out == IF config.is_encoded THEN b85encode(bytes) ELSE bytes
         IN [fs |-> [p \in DOMAIN fs \cup {config.path} |->
                        IF p = config.path THEN out ELSE fs[p]],
             err |-> "none", writes |-> {config.path}]

\* Variant: a record whose write fails is skipped and the remaining records
\* are still saved; the first error is reported at the end
RECURSIVE save_all_keep_going(_, _, _, _)
save_all_keep_going(inst, i, fs, writes) ==
    IF i > Len(inst) THEN [fs |-> fs, err |-> "none", writes |-> writes]
    ELSE LET r == save_config(fs, inst[i].rec)
             rest == save_all_keep_going(inst, i + 1, r.fs, writes \cup r.writes)
         IN [fs |-> rest.fs,
             err |-> IF r.err # "none" THEN r.err ELSE rest.err,
             writes |-> rest.writes]

\* for config in _instances.values(): _save_config(config)
RECURSIVE save_all(_, _, _, _)
save_all(inst, i, fs, writes) ==
    IF i > Len(inst) THEN [fs |-> fs, err |-> "none", writes |-> writes]
    ELSE LET r == save_config(fs, inst[i].rec)
         IN IF r.err # "none"
            THEN [fs |-> r.fs, err |-> r.err, writes |-> writes \cup r.writes]
            ELSE save_all(inst, i + 1, r.fs, writes \cup r.writes)

\* ---------------------------------------------------------------- state
NoFiles == [p \in {} |-> Corrupt]

NoArgs == [type_ |-> "DictConfig", path |-> NoPath, is_encoded |-> FALSE,
           serializable |-> FALSE]

\* The last call: its name argument, the arguments of a get_config that had to
\* load, what it returned or raised, the files it read and wrote, whether the
\* name was registered when it was made, and the instance that the call just
\* before it removed from the registry under the same name.
Last(op, name, args, ret, err, reads, writes, hit) ==
    [op |-> op, name |-> name, args |-> args, ret |-> ret, err |-> err,
     reads |-> reads, writes |-> writes, hit |-> hit,
     dropped |-> IF /\ last.op = "close" /\ last.hit /\ op \in {"get", "reload"}
                    /\ get_effective_config_name(last.name) = get_effective_config_name(name)
                 THEN last.ret ELSE NoInst]

Init ==
    /\ instances = <<>>
    /\ files = NoFiles
    /\ nextId = 1
    /\ last = [op |-> "init", name |-> <<>>, args |-> NoArgs, ret |-> NoInst,
               err |-> "none", reads |-> {}, writes |-> {}, hit |-> FALSE,
               dropped |-> NoInst]

\* Variant: a registered name is loaded again when the requested type is not
\* the stored one
get_config_reinit(raw, config_type, config_path, is_encoded, serializable) ==
    LET config_name == get_effective_config_name(raw)
        args == [type_ |-> config_type, path |-> config_path,
                 is_encoded |-> is_encoded, serializable |-> serializable]
        found == Has(instances, config_name)
    IN IF found /\ Get(instances, config_name).type_ = config_type
       THEN /\ last' = Last("get", raw, NoArgs, Get(instances, config_name).config,
                            "none", {}, {}, TRUE)
            /\ UNCHANGED <<instances, files, nextId>>
       ELSE LET r == load_config(instances, files, nextId, config_name, config_type,
                                 config_path, is_encoded, serializable)
            IN /\ nextId <= MaxInst
               /\ instances' = r.inst
               /\ nextId' = nextId + 1
               /\ last' = Last("get", raw, args, r.ret, r.err, r.reads, {}, found)
               /\ UNCHANGED files

\* ConfigManager.get_config
get_config(raw, config_type, config_path, is_encoded, serializable) ==
    LET config_name == get_effective_config_name(raw)
        args == [type_ |-> config_type, path |-> config_path,
                 is_encoded |-> is_encoded, serializable |-> serializable]
    IN IF Has(instances, config_name)
       THEN /\ last' = Last("get", raw, NoArgs, Get(instances, config_name).config,
                            "none", {}, {}, TRUE)
            /\ UNCHANGED <<instances, files, nextId>>
       ELSE LET r == load_config(instances, files, nextId, config_name, config_type,
                                 config_path, is_encoded, serializable)
            IN /\ nextId <= MaxInst
               /\ instances' = r.inst
               /\ nextId' = nextId + 1
               /\ last' = Last("get", raw, args, r.ret, r.err, r.reads, {}, FALSE)
               /\ UNCHANGED files

\* Variant: a name that is not registered is loaded with the default arguments
reload_config_autoload(raw) ==
    LET config_name == get_effective_config_name(raw)
        found == Has(instances, config_name)
        current == IF found THEN Get(instances, config_name)
                   ELSE Configuration(NoInst, FALSE, "DictConfig", NoPath, TRUE)
        r == load_config(instances, files, nextId, config_name, current.type_,
                         current.path, current.is_encoded, current.serializable)
    IN /\ nextId <= MaxInst
       /\ instances' = r.inst
       /\ nextId' = nextId + 1
       /\ last' = Last("reload", raw, NoArgs, r.ret, r.err, r.reads, {}, found)
       /\ UNCHANGED files

\* Variant: the entry is removed before the load, so a load that raises
\* leaves the name unregistered
reload_config_pop_first(raw) ==
    LET config_name == get_effective_config_name(raw)
    IN IF ~Has(instances, config_name)
       THEN /\ last' = Last("reload", raw, NoArgs, NoInst, "not_loaded", {}, {}, FALSE)
            /\ UNCHANGED <<instances, files, nextId>>
       ELSE LET current == Get(instances, config_name)
                r == load_config(Del(instances, config_name), files, nextId,
                                 config_name, current.type_, current.path,
                                 current.is_encoded, current.serializable)
            IN /\ nextId <= MaxInst
               /\ instances' = r.inst
               /\ nextId' = nextId + 1
               /\ last' = Last("reload", raw, NoArgs, r.ret, r.err, r.reads, {}, TRUE)
               /\ UNCHANGED files

\* Variant: a record that is not serializable has nothing to load again and
\* keeps its instance
reload_config_keep_unserializable(raw) ==
    LET config_name == get_effective_config_name(raw)
    IN IF ~Has(instances, config_name)
       THEN /\ last' = Last("reload", raw, NoArgs, NoInst, "not_loaded", {}, {}, FALSE)
            /\ UNCHANGED <<instances, files, nextId>>
       ELSE LET current == Get(instances, config_name)
                r == IF current.serializable
                     THEN load_config(instances, files, nextId, config_name,
                                      current.type_, current.path,
                                      current.is_encoded, current.serializable)
                     ELSE [inst |-> instances, ret |-> current.config,
                           err |-> "none", reads |-> {}]
            IN /\ nextId <= MaxInst
               /\ instances' = r.inst
               /\ nextId' = nextId + 1
               /\ last' = Last("reload", raw, NoArgs, r.ret, r.err, r.reads, {}, TRUE)
               /\ UNCHANGED files

\* ConfigManager.reload_config
reload_config(raw) ==
    LET config_name == get_effective_config_name(raw)
    IN IF ~Has(instances, config_name)
       THEN /\ last' = Last("reload", raw, NoArgs, NoInst, "not_loaded", {}, {}, FALSE)
            /\ UNCHANGED <<instances, files, nextId>>
       ELSE LET current == Get(instances, config_name)
                r == load_config(instances, files, nextId, config_name, current.type_,
                                 current.path, current.is_encoded, current.serializable)
            IN /\ nextId <= MaxInst
               /\ instances' = r.inst
               /\ nextId' = nextId + 1
               /\ last' = Last("reload", raw, NoArgs, r.ret, r.err, r.reads, {}, TRUE)
               /\ UNCHANGED files

\* Variant: the record is written to its file before it is removed
close_config_with_save(raw) ==
    LET config_name == get_effective_config_name(raw)
        found == Has(instances, config_name)
        r == IF found THEN save_config(files, Get(instances, config_name))
             ELSE [fs |-> files, err |-> "none", writes |-> {}]
    IN /\ instances' = IF found THEN Del(instances, config_name) ELSE instances
       /\ files' = r.fs
       /\ last' = Last("close", raw, NoArgs,
                       IF found THEN Get(instances, config_name).config ELSE NoInst,
                       "none", {}, r.writes, found)
       /\ UNCHANGED nextId

\* ConfigManager.close_config_without_save
close_config_without_save(raw) ==
    LET config_name == get_effective_config_name(raw)
    IN /\ instances' = IF Has(instances, config_name)
                       THEN Del(instances, config_name) ELSE instances
       /\ last' = Last("close", raw, NoArgs,
                       IF Has(instances, config_name)
                       THEN Get(instances, config_name).config ELSE NoInst,
                       "none", {}, {}, Has(instances, config_name))
       /\ UNCHANGED <<files, nextId>>

\* ConfigManager.save
save ==
    LET r == save_all(instances, 1, files, {})
    IN /\ files' = r.fs
       /\ last' = Last("save", <<>>, NoArgs, NoInst, r.err, {}, r.writes, FALSE)
       /\ UNCHANGED <<instances, nextId>>

\* The application edits the instance it got for a loaded name: config.k = v
Mutate(k, v) ==
    /\ Has(instances, k)
    /\ LET cur == Get(instances, k)
       IN instances' = Put(instances, k,
                           [cur EXCEPT !.config.data = SetKey(cur.config.data, "k", v)])
    /\ last' = Last("mutate", <<>>, NoArgs, NoInst, "none", {}, {}, TRUE)
    /\ UNCHANGED <<files, nextId>>

\* Another program writes a configuration file
ExternalPaths == { get_full_config_path(<<"x">>, P1) }
ExternalContents == { dumps({<<"k", 1>>}), Corrupt }

ExternalWrite(p, c) ==
    /\ files' = [q \in DOMAIN files \cup {p} |-> IF q = p THEN c ELSE files[q]]
    /\ last' = Last("external", <<>>, NoArgs, NoInst, "none", {}, {p}, FALSE)
    /\ UNCHANGED <<instances, nextId>>

\* The get_config calls the application makes: DictConfig in P1 under every
\* combination of encoding and serializability and in the default directory
\* for x, a dataclass configuration for x, calls under a second spelling of x,
\* and plain DictConfig calls for y.
Calls ==
    ({<<"x">>} \X {"DictConfig"} \X {P1} \X BOOLEAN \X BOOLEAN)
    \cup {<< <<"x">>, "DictConfig", NoPath, FALSE, TRUE >>,
          << <<"x">>, "DataclassConfig", P1, FALSE, TRUE >>,
          << <<" ", "X", " ">>, "DataclassConfig", NoPath, TRUE, TRUE >>,
          << <<" ", "X", " ">>, "DictConfig", P1, FALSE, TRUE >>}
    \cup ({<<"y">>} \X {"DictConfig"} \X {P1} \X {FALSE} \X BOOLEAN)

Next ==
    \/ \E c \in Calls : get_config(c[1], c[2], c[3], c[4], c[5])
    \/ \E raw \in RawNames : reload_config(raw)
    \/ \E raw \in RawNames : close_config_without_save(raw)
    \/ save
    \/ \E k \in KeysOf(instances), v \in Values : Mutate(k, v)
    \/ \E p \in ExternalPaths, c \in ExternalContents : ExternalWrite(p, c)

Spec == Init /\ [][Next]_vars

\* ---------------------------------------------------------------- termination
\* Variant: the process ends without the registered save
Exit_without_save ==
    /\ last' = Last("exit", <<>>, NoArgs, NoInst, "none", {}, {}, FALSE)
    /\ UNCHANGED <<instances, files, nextId>>

\* atexit.register(ConfigManager.save): when the process terminates the
\* interpreter calls save(); what it raises is printed and goes nowhere.
Exit ==
    LET r == save_all(instances, 1, files, {})
    IN /\ files' = r.fs
       /\ last' = Last("exit", <<>>, NoArgs, NoInst, r.err, {}, r.writes, FALSE)
       /\ UNCHANGED <<instances, nextId>>

\* The process has not terminated
Running == last.op # "exit"

\* The calls of an application that also uses a dataclass without defaults,
\* the directory P2 and values that are not JSON values
NamesExt == { <<"x">>, <<"y">> }

CallsExt ==
    {<< <<"x">>, "DictConfig", P1, FALSE, TRUE >>,
     << <<"x">>, "DictConfig", P2, FALSE, TRUE >>,
     << <<"x">>, "RequiredConfig", P1, FALSE, TRUE >>,
     << <<"y">>, "DictConfig", P1, FALSE, TRUE >>}

\* Another program writes x's file in P1, or leaves an unreadable file inside
\* the directory P2/x.ecfg
ExternalWritesExt ==
    { << get_full_config_path(<<"x">>, P1), dumps({<<"k", 1>>}) >>,
      << get_full_config_path(<<"x">>, get_full_config_path(<<"x">>, P2)), Corrupt >> }

\* The values the application stores: a JSON value and one that is not
ValuesExt == {1, BadValue}

NextExt ==
    \/ Running /\ \E c \in CallsExt : get_config(c[1], c[2], c[3], c[4], c[5])
    \/ Running /\ \E raw \in NamesExt : reload_config(raw)
    \/ Running /\ \E raw \in NamesExt : close_config_without_save(raw)
    \/ Running /\ save
    \/ Running /\ \E k \in KeysOf(instances), v \in ValuesExt : Mutate(k, v)
    \/ Running /\ \E w \in ExternalWritesExt : ExternalWrite(w[1], w[2])
    \/ Running /\ Exit

SpecExt == Init /\ [][NextExt]_vars

\* ---------------------------------------------------------------- shorthands
LastKey == get_effective_config_name(last.name)

\* What a load of (type_, is_encoded) from the file at path p should produce:
\* the decoding of the file when it exists, a default instance otherwise.
FileOrDefault(fs, type_, is_encoded, p) ==
    IF isfile(fs, p) THEN Decode(type_, is_encoded, fs[p]) ELSE Ok(Construct(type_))

\* A step that is a call of reload_config on a registered name
ReloadStep == last'.op = "reload" /\ Has(instances, get_effective_config_name(last'.name))

\* ---------------------------------------------------------------- C1
\* C1: reload_config(X) of a loaded serializable X re-reads the file at X's
\* stored path: it registers and returns a fresh instance equal to the decoding
\* of that file, and a default instance only when no file exists at that path.
C1_ReloadRereadsStoredFile ==
    [][ReloadStep =>
        LET k == get_effective_config_name(last'.name)
            old == Get(instances, k)
            want == FileOrDefault(files, old.type_, old.is_encoded, old.path)
        IN (old.serializable /\ want.ok) =>
              /\ last'.err = "none"
              /\ Has(instances', k)
              /\ Get(instances', k).config = last'.ret
              /\ last'.ret.id # old.config.id
              /\ last'.ret.data = want.val]_vars

\* ---------------------------------------------------------------- C2
\* C2: reload_config(X) changes only the instance of X's record: type, path,
\* is_encoded and serializable after the call equal those stored before it.
C2_ReloadKeepsMetadata ==
    [][(ReloadStep /\ last'.err = "none") =>
        LET k == get_effective_config_name(last'.name)
            old == Get(instances, k)
            new == Get(instances', k)
        IN /\ Has(instances', k)
           /\ new.type_ = old.type_
           /\ new.path = old.path
           /\ new.is_encoded = old.is_encoded
           /\ new.serializable = old.serializable]_vars

\* ---------------------------------------------------------------- C3
\* C3: a get_config of a registered name returns the very instance stored in
\* the record, whatever type, path and flags are passed, reads and writes no
\* file and leaves the registry as it was.
C3_CacheHitReturnsStoredInstance ==
    [][(last'.op = "get" /\ Has(instances, get_effective_config_name(last'.name))) =>
        /\ last'.ret = Get(instances, get_effective_config_name(last'.name)).config
        /\ last'.err = "none"
        /\ last'.reads = {} /\ last'.writes = {}
        /\ instances' = instances
        /\ files' = files]_vars

\* A hit under the spelling " X " on a record that is an encoded DictConfig:
\* both calls made under that spelling pass other arguments than the stored ones.
C3_Witness ==
    /\ last.op = "get" /\ last.hit /\ last.name = <<" ", "X", " ">>
    /\ Has(instances, <<"x">>)
    /\ LET rec == Get(instances, <<"x">>)
       IN /\ rec.type_ = "DictConfig" /\ rec.is_encoded /\ rec.serializable
          /\ last.ret = rec.config

\* ---------------------------------------------------------------- C4
\* The normalized name each raw name stands for
Canonical(raw) == IF raw \in {<<"x">>, <<" ", "X", " ">>} THEN <<"x">> ELSE <<"y">>

KeysNormalized ==
    \A i \in 1..Len(instances) :
        LET k == instances[i].key
        IN /\ k # <<>>
           /\ \A j \in 1..Len(k) : k[j] \notin {"X", "Y"}
           /\ k[1] # " " /\ k[Len(k)] # " "

OneRecordPerName ==
    \A i, j \in 1..Len(instances) : i # j => instances[i].key # instances[j].key

EntryOf(inst, k) == IF Has(inst, k) THEN <<Get(inst, k)>> ELSE <<>>

ActsOnCanonicalEntry ==
    last'.op \in {"get", "reload", "close"} =>
        LET k == Canonical(last'.name)
        IN /\ \A k2 \in (KeysOf(instances) \cup KeysOf(instances')) \ {k} :
                 EntryOf(instances', k2) = EntryOf(instances, k2)
           /\ (last'.op = "get" /\ last'.err = "none") =>
                 (Has(instances', k) /\ Get(instances', k).config = last'.ret)
           /\ (last'.op = "reload") => (Has(instances, k) <=> last'.err # "not_loaded")
           /\ (last'.op = "close") => ~Has(instances', k)

\* C4: every registry key is lower-cased and trimmed, there is at most one
\* record per normalized name, and get_config, reload_config and
\* close_config_without_save act on the entry of the normalized name whatever
\* the spelling of the raw name.
C4_NamesNormalized ==
    [](KeysNormalized /\ OneRecordPerName) /\ [][ActsOnCanonicalEntry]_vars

\* A hit under the spelling "x" on the record that only a call under the
\* spelling " X " can have loaded (an encoded dataclass configuration)
C4_Witness ==
    /\ last.op = "get" /\ last.hit /\ last.name = <<"x">>
    /\ Has(instances, <<"x">>)
    /\ Get(instances, <<"x">>).type_ = "DataclassConfig"
    /\ Get(instances, <<"x">>).is_encoded

\* ---------------------------------------------------------------- C5
\* A get_config step that had to load, with serializable = TRUE, while no file
\* exists at the resolved path
MissingFileGet ==
    /\ last'.op = "get" /\ ~Has(instances, Canonical(last'.name))
    /\ last'.args.serializable
    /\ ~isfile(files, get_full_config_path(Canonical(last'.name), last'.args.path))

\* C5: get_config of an unloaded serializable name whose file does not exist
\* raises nothing, registers and returns an empty default instance of the
\* requested type; get_config, reload_config and close_config_without_save
\* leave every file as it was.
C5_DefaultOnMissingFile ==
    [][/\ MissingFileGet =>
            /\ last'.err = "none"
            /\ Has(instances', Canonical(last'.name))
            /\ Get(instances', Canonical(last'.name)).config = last'.ret
            /\ Get(instances', Canonical(last'.name)).type_ = last'.args.type_
            /\ last'.ret.data = (IF last'.args.type_ = "DictConfig" THEN {} ELSE {<<"k", 0>>})
       /\ last'.op \in {"get", "reload", "close"} =>
            (files' = files /\ last'.writes = {})]_vars

\* A default instance was registered for x while its default file is absent,
\* and another file exists
C5_Witness ==
    /\ last.op = "get" /\ ~last.hit /\ last.err = "none"
    /\ last.args.serializable /\ last.args.path = NoPath
    /\ Has(instances, <<"x">>)
    /\ ~isfile(files, Get(instances, <<"x">>).path)
    /\ last.ret.data = {}
    /\ DOMAIN files # {}

\* ---------------------------------------------------------------- C6
\* The bytes a record's file should hold: the JSON of the instance's map,
\* wrapped in base85 when the record is encoded
Serialized(rec) ==
    IF rec.is_encoded THEN <<"b85", <<"json", rec.config.data>>>>
    ELSE <<"json", rec.config.data>>

SerializablePaths(inst) ==
    { inst[i].rec.path : i \in { j \in 1..Len(inst) : inst[j].rec.serializable } }

\* C6: after a save() that raises nothing, the file at the stored path of each
\* serializable record holds the instance's map in the record's encoding mode,
\* every other file is as it was, and the registry is unchanged.
C6_SavePersistsSerializable ==
    [][(last'.op = "save" /\ last'.err = "none") =>
        /\ \A i \in 1..Len(instances) :
              instances[i].rec.serializable =>
                 /\ isfile(files', instances[i].rec.path)
                 /\ files'[instances[i].rec.path] = Serialized(instances[i].rec)
        /\ \A p \in (DOMAIN files \cup DOMAIN files') \ SerializablePaths(instances) :
              p \in DOMAIN files /\ p \in DOMAIN files' /\ files'[p] = files[p]
        /\ last'.writes = SerializablePaths(instances)
        /\ instances' = instances]_vars

\* A save that wrote an encoded x and a plain y, both edited since loading
C6_Witness ==
    /\ last.op = "save" /\ last.err = "none" /\ Cardinality(last.writes) = 2
    /\ Has(instances, <<"x">>) /\ Has(instances, <<"y">>)
    /\ Get(instances, <<"x">>).is_encoded
    /\ Get(instances, <<"x">>).config.data = {<<"k", 1>>}
    /\ Get(instances, <<"y">>).config.data = {<<"k", 0>>}
    /\ files[Get(instances, <<"x">>).path] = <<"b85", <<"json", {<<"k", 1>>}>>>>

\* ---------------------------------------------------------------- C7
\* A directory that could be created: no file stands where it or one of its
\* ancestors would be
Creatable(d) == \A n \in 1..Len(d) : ~isfile(files, SubSeq(d, 1, n))

\* C7: when the directory of a serializable record's path does not exist,
\* save() creates it and writes the file, so save() raises nothing and leaves
\* the file of every serializable record present.
C7_SaveCreatesDirectory ==
    (/\ last.op = "save"
     /\ \A i \in 1..Len(instances) :
           instances[i].rec.serializable => Creatable(Parent(instances[i].rec.path)))
    => /\ last.err = "none"
       /\ \A i \in 1..Len(instances) :
             instances[i].rec.serializable => isfile(files, instances[i].rec.path)

\* ---------------------------------------------------------------- C8
\* The state after a get_config that follows, with nothing in between, a
\* close_config_without_save that removed the same name
GetAfterClose == last.op = "get" /\ last.dropped.id # 0

\* What the files hold for the arguments of the last get_config
LastFileState ==
    IF last.args.serializable
    THEN FileOrDefault(files, last.args.type_, last.args.is_encoded,
                       get_full_config_path(Canonical(last.name), last.args.path))
    ELSE Ok(Construct(last.args.type_))

\* C8: after close_config_without_save(X), the next get_config(X) loads again:
\* it returns a new instance, not the one that was closed, whose content is
\* what X's file holds (a default instance without a file); and
\* close_config_without_save removes the entry and writes nothing.
C8_CloseDiscards ==
    /\ [](GetAfterClose =>
            /\ ~last.hit
            /\ last.err = "none" <=> LastFileState.ok
            /\ last.err = "none" =>
                  /\ last.ret.id # last.dropped.id
                  /\ last.ret.data = LastFileState.val
                  /\ Get(instances, Canonical(last.name)).config = last.ret)
    /\ [][last'.op = "close" =>
            /\ files' = files /\ last'.writes = {}
            /\ ~Has(instances', Canonical(last'.name))]_vars

\* x was saved with k = 1, edited to k = 0, closed and loaded again: the new
\* instance holds the saved k = 1
C8_Witness ==
    /\ GetAfterClose /\ last.err = "none" /\ last.args.serializable
    /\ last.dropped.data = {<<"k", 0>>}
    /\ last.ret.data = {<<"k", 1>>}
    /\ Has(instances, <<"x">>)
    /\ isfile(files, Get(instances, <<"x">>).path)
    /\ files[Get(instances, <<"x">>).path] = <<"b85", <<"json", {<<"k", 1>>}>>>>

\* ---------------------------------------------------------------- C9
\* The paths a file of name k would have under the configuration directories
FilesOfName(p, k) == p # <<>> /\ p[Len(p)] = FileName(k)

\* C9: for a name registered with serializable = FALSE no file is read or
\* written: the instance loaded for it is a default one whatever files exist,
\* save() writes no file of that name, and a get_config of it returns the
\* registered instance.
C9_NonSerializableIsolation ==
    \A i \in 1..Len(instances) :
        LET k == instances[i].key
            rec == instances[i].rec
        IN ~rec.serializable =>
             /\ (last.op \in {"get", "reload"} /\ Canonical(last.name) = k) =>
                   /\ last.reads = {} /\ last.writes = {}
                   /\ last.err = "none"
                   /\ last.ret = rec.config
                   /\ ~last.hit \/ last.op = "reload" =>
                         last.ret.data = (IF rec.type_ = "DictConfig" THEN {} ELSE {<<"k", 0>>})
             /\ last.op = "save" => \A p \in last.writes : ~FilesOfName(p, k)

\* x was just loaded as non-serializable from P1 while P1/x.ecfg holds k = 1
C9_Witness ==
    /\ last.op = "get" /\ ~last.hit /\ Canonical(last.name) = <<"x">>
    /\ Has(instances, <<"x">>)
    /\ ~Get(instances, <<"x">>).serializable
    /\ Get(instances, <<"x">>).path = P1
    /\ isfile(files, get_full_config_path(<<"x">>, P1))
    /\ files[get_full_config_path(<<"x">>, P1)] = <<"json", {<<"k", 1>>}>>
    /\ last.ret.data = {}

\* ---------------------------------------------------------------- C10
\* C10: reload_config of a name without a registry entry raises the not-loaded
\* error, reads and writes no file and leaves the registry as it was, also
\* when the name was registered before and then closed.
C10_ReloadRequiresLoaded ==
    [][(last'.op = "reload" /\ ~Has(instances, Canonical(last'.name))) =>
        /\ last'.err = "not_loaded"
        /\ last'.ret = NoInst
        /\ last'.reads = {} /\ last'.writes = {}
        /\ instances' = instances
        /\ files' = files
        /\ nextId' = nextId]_vars

\* A reload_config refused right after the name was closed
C10_Witness ==
    /\ last.op = "reload" /\ last.err = "not_loaded"
    /\ last.dropped.id # 0
    /\ ~Has(instances, Canonical(last.name))

\* ---------------------------------------------------------------- C11
\* A step in which save() runs, called by the application or at termination
SaveStep == last'.op \in {"save", "exit"}

\* C11: saving one configuration fully succeeds or fully fails: after a
\* save() the file of each serializable record holds the record's serialized
\* map or is exactly what it was before the call.
C11_SaveAllOrNothing ==
    [][SaveStep =>
        \A i \in 1..Len(instances) :
            LET rec == instances[i].rec
                p == rec.path
            IN rec.serializable =>
                  \/ isfile(files', p) /\ files'[p] = Serialized(rec)
                  \/ ~isfile(files', p) /\ ~isfile(files, p)
                  \/ isfile(files', p) /\ isfile(files, p) /\ files'[p] = files[p]]_vars

\* ---------------------------------------------------------------- C12
\* A get_config step that has to load a serializable configuration
LoadingGet ==
    /\ last'.op = "get" /\ ~Has(instances, Canonical(last'.name))
    /\ last'.args.serializable

\* The file the arguments of that get_config resolve to
LoadingPath == get_full_config_path(Canonical(last'.name), last'.args.path)

\* Content that is not JSON, or not base85 of JSON, as the mode requires
Malformed(is_encoded, content) ==
    IF is_encoded THEN ~(content[1] = "b85" /\ content[2][1] = "json")
    ELSE content[1] # "json"

\* C12: when the file exists but cannot be decoded in the requested mode,
\* get_config raises; it returns no instance and registers none, a default
\* instance being used only when the file does not exist.
C12_CorruptFileRaises ==
    [][(/\ LoadingGet
        /\ isfile(files, LoadingPath)
        /\ Malformed(last'.args.is_encoded, files[LoadingPath])) =>
           /\ last'.err # "none"
           /\ last'.ret = NoInst
           /\ instances' = instances]_vars

\* A get_config of x that met an unreadable P1/x.ecfg
C12_Witness ==
    /\ last.op = "get" /\ ~last.hit /\ last.err = "codec"
    /\ last.args.path = P1
    /\ isfile(files, get_full_config_path(<<"x">>, P1))
    /\ files[get_full_config_path(<<"x">>, P1)] = Corrupt
    /\ ~Has(instances, <<"x">>)

\* ---------------------------------------------------------------- C13
\* C13: a file holding plain JSON, as save() writes it for a record that is not
\* encoded, makes get_config with is_encoded = TRUE raise a codec error instead
\* of returning an instance.
C13_PlainFileNotReadAsEncoded ==
    [][(/\ LoadingGet /\ last'.args.is_encoded
        /\ isfile(files, LoadingPath)
        /\ files[LoadingPath] \in { <<"json", m>> : m \in Maps }) =>
           /\ last'.err = "codec"
           /\ last'.ret = NoInst
           /\ ~Has(instances', Canonical(last'.name))]_vars

\* An encoded get_config of x refused on the file that save() wrote for the
\* empty map in plain mode
C13_Witness ==
    /\ last.op = "get" /\ ~last.hit /\ last.err = "codec"
    /\ last.args.is_encoded /\ last.args.path = P1
    /\ last.dropped.id # 0 /\ last.dropped.data = {}
    /\ isfile(files, get_full_config_path(<<"x">>, P1))
    /\ files[get_full_config_path(<<"x">>, P1)] = <<"json", {}>>

\* ---------------------------------------------------------------- C14
\* The file of the last get_config holds what save() writes for the map m in
\* the mode that get_config asked for
FileHoldsSaved(m) ==
    LET p == get_full_config_path(Canonical(last.name), last.args.path)
    IN /\ isfile(files, p)
       /\ files[p] = (IF last.args.is_encoded THEN <<"b85", <<"json", m>>>>
                      ELSE <<"json", m>>)

NormalNames == { <<"x">>, <<"y">> }

\* The identity of the instance registered for k, 0 when k is not loaded
LoadedId(inst, k) == IF Has(inst, k) THEN Get(inst, k).config.id ELSE 0

Lifecycle ==
    /\ \A k \in NormalNames :
          /\ (~Has(instances, k) /\ Has(instances', k)) =>
                (last'.op = "get" /\ Canonical(last'.name) = k /\ last'.err = "none")
          /\ (Has(instances, k) /\ ~Has(instances', k)) =>
                (last'.op = "close" /\ Canonical(last'.name) = k)
          /\ (Has(instances, k) /\ Has(instances', k)
                /\ LoadedId(instances', k) # LoadedId(instances, k)) =>
                (last'.op = "reload" /\ Canonical(last'.name) = k /\ last'.err = "none")
    /\ (last'.op = "get" /\ last'.err = "none") => Has(instances', Canonical(last'.name))
    /\ (last'.op = "reload" /\ last'.err = "none") =>
          /\ Has(instances, Canonical(last'.name))
          /\ Has(instances', Canonical(last'.name))
          /\ LoadedId(instances', Canonical(last'.name))
                # LoadedId(instances, Canonical(last'.name))
    /\ (last'.op = "close") =>
          /\ ~Has(instances', Canonical(last'.name))
          /\ \A k \in NormalNames \ {Canonical(last'.name)} :
                EntryOf(instances', k) = EntryOf(instances, k)
          /\ ~Has(instances, Canonical(last'.name)) => instances' = instances
    /\ (last'.op = "save") => instances' = instances

\* C15: a name becomes loaded only through a successful get_config, stays
\* loaded with a replaced instance through reload_config, becomes unloaded only
\* through close_config_without_save, which is a no-op on an absent name and
\* leaves the other entries alone, and save() never changes the registry.
C15_Lifecycle == [][Lifecycle]_vars

\* x was closed while y stays registered
C15_Witness ==
    /\ last.op = "close" /\ last.hit /\ Canonical(last.name) = <<"x">>
    /\ ~Has(instances, <<"x">>) /\ Has(instances, <<"y">>)
    /\ nextId > 3

\* ---------------------------------------------------------------- C16
ExitFlush ==
    /\ last.op # "exit"
    /\ last'.op = "exit" =>
          /\ instances' = instances
          /\ last'.err = "none" =>
                /\ \A i \in 1..Len(instances) :
                      instances[i].rec.serializable =>
                         /\ isfile(files', instances[i].rec.path)
                         /\ files'[instances[i].rec.path] = Serialized(instances[i].rec)
                /\ last'.writes = SerializablePaths(instances)

\* C16: when the process terminates save() runs once, after every operation
\* of the application (no step follows it), and unless it raises every
\* serializable record registered at that moment is in its file afterwards;
\* what it raises goes nowhere.
C16_ExitFlush == [][ExitFlush]_vars

\* The process ended with x edited to k = 1 and never saved by the
\* application: the file written at termination holds k = 1
C16_Witness ==
    /\ last.op = "exit" /\ last.err = "none"
    /\ last.writes = { get_full_config_path(<<"x">>, P1) }
    /\ Has(instances, <<"x">>)
    /\ Get(instances, <<"x">>).config.data = {<<"k", 1>>}
    /\ files[get_full_config_path(<<"x">>, P1)] = <<"json", {<<"k", 1>>}>>
    /\ nextId = 2

\* ---------------------------------------------------------------- C17
\* The map held by well-formed file content
MapOf(is_encoded, content) == IF is_encoded THEN content[2][2] ELSE content[2]

\* C17: when the resolved file exists and is well-formed, get_config builds
\* the instance from the file's map through the type's from_json alone: it
\* succeeds whenever from_json accepts the map, also for a type that cannot
\* be constructed without arguments.
C17_LoadsThroughFromJsonAlone ==
    [][(/\ LoadingGet
        /\ isfile(files, LoadingPath)
        /\ ~Malformed(last'.args.is_encoded, files[LoadingPath])) =>
           LET built == from_json(last'.args.type_,
                                  MapOf(last'.args.is_encoded, files[LoadingPath]))
           IN built.ok =>
                 /\ last'.err = "none"
                 /\ last'.ret.data = built.val
                 /\ Has(instances', Canonical(last'.name))]_vars

\* ---------------------------------------------------------------- C18
\* A get_config or reload_config step whose load raised
FailedLoadStep ==
    /\ last'.op \in {"get", "reload"}
    /\ last'.err \in {"codec", "construct"}

\* C18: a load that fails leaves the registry exactly as it was: a failed
\* get_config creates no entry for the name, a failed reload_config keeps the
\* record and its instance, and a get_config that follows the failed reload
\* returns that instance.
FailedLoadKeepsRegistry ==
    /\ FailedLoadStep =>
          /\ instances' = instances
          /\ files' = files
          /\ last'.op = "get" => ~Has(instances', Canonical(last'.name))
          /\ last'.op = "reload" =>
                /\ Has(instances', Canonical(last'.name))
                /\ Get(instances', Canonical(last'.name))
                      = Get(instances, Canonical(last'.name))
    /\ (/\ last.op = "reload" /\ last.err \in {"codec", "construct"}
        /\ last'.op = "get" /\ Canonical(last'.name) = Canonical(last.name)) =>
          /\ last'.hit /\ last'.err = "none"
          /\ last'.ret = Get(instances, Canonical(last.name)).config
          /\ instances' = instances

C18_FailedLoadKeepsRegistry == [][FailedLoadKeepsRegistry]_vars

\* x was loaded from P2 and edited; its reload met an unreadable file and
\* raised, and the edited instance is still the registered one
C18_Witness ==
    /\ last.op = "reload" /\ last.err = "codec" /\ last.hit
    /\ last.reads = { get_full_config_path(<<"x">>, get_full_config_path(<<"x">>, P2)) }
    /\ Has(instances, <<"x">>)
    /\ Get(instances, <<"x">>).config = [id |-> 1, data |-> {<<"k", 1>>}]
    /\ nextId = 3

\* ---------------------------------------------------------------- C19
\* Record i of the registry was written by the step: its file holds its
\* serialized map
Written(i) ==
    /\ instances[i].rec.path \in last'.writes
    /\ isfile(files', instances[i].rec.path)
    /\ files'[instances[i].rec.path] = Serialized(instances[i].rec)

\* Record i of the registry was not touched by the step
Untouched(i) ==
    /\ instances[i].rec.path \notin last'.writes
    /\ isfile(files', instances[i].rec.path) = isfile(files, instances[i].rec.path)
    /\ isfile(files, instances[i].rec.path) =>
          files'[instances[i].rec.path] = files[instances[i].rec.path]

\* C19: save(), called by the application or at termination, goes through
\* the records in insertion order and stops at the first one whose write
\* fails: when it raises, there is a serializable record that was not written,
\* every serializable record registered before it was written and no record
\* registered after it was touched.
SaveStopsAtFirstFailure ==
    (SaveStep /\ last'.err # "none") =>
        /\ instances' = instances
        /\ \E i \in 1..Len(instances) :
              /\ instances[i].rec.serializable
              /\ ~Written(i)
              /\ \A j \in 1..(i - 1) : instances[j].rec.serializable => Written(j)
              /\ \A j \in (i + 1)..Len(instances) : Untouched(j)

C19_SaveStopsAtFirstFailure == [][SaveStopsAtFirstFailure]_vars

\* At termination x, registered first, could not be encoded; y, registered
\* after it, has no file
C19_Witness ==
    /\ last.op = "exit" /\ last.err = "encode"
    /\ Len(instances) = 2
    /\ instances[1].key = <<"x">> /\ instances[2].key = <<"y">>
    /\ instances[2].rec.serializable
    /\ last.writes = { instances[1].rec.path }
    /\ ~isfile(files, instances[2].rec.path)

\* ---------------------------------------------------------------- C20
\* C20: reload_config of a name loaded with serializable=False touches no
\* file, registers and returns a new default instance of the stored type in
\* place of the previous one, and leaves the record non-serializable; save()
\* writes no file of a non-serializable record.
ReloadOfUnserializable ==
    /\ (ReloadStep /\ ~Get(instances, Canonical(last'.name)).serializable) =>
          LET old == Get(instances, Canonical(last'.name))
              new == Get(instances', Canonical(last'.name))
          IN /\ last'.err = "none"
             /\ last'.reads = {} /\ last'.writes = {}
             /\ files' = files
             /\ last'.ret.id # old.config.id
             /\ last'.ret.data = Construct(old.type_)
             /\ new.config = last'.ret
             /\ new.type_ = old.type_
             /\ ~new.serializable
             /\ KeysOf(instances') = KeysOf(instances)
    /\ SaveStep =>
          \A i \in 1..Len(instances) :
              ~instances[i].rec.serializable =>
                 \A p \in last'.writes : ~FilesOfName(p, instances[i].key)

C20_ReloadOfUnserializable == [][ReloadOfUnserializable]_vars

\* x, loaded with serializable=False, has been reloaded twice: the third
\* instance is registered, it is empty, and no file exists
C20_Witness ==
    /\ last.op = "reload" /\ last.hit /\ last.err = "none"
    /\ Has(instances, <<"x">>)
    /\ ~Get(instances, <<"x">>).serializable
    /\ Get(instances, <<"x">>).config = [id |-> 3, data |-> EmptyMap]
    /\ last.ret = Get(instances, <<"x">>).config
    /\ files = NoFiles

====
